---- MODULE Spec2Model ----
(***************************************************************************)
(* Model of the Parquet ingestion pipeline of the ParquetLayer component   *)
(* (src/src/components/viewers/map/ParquetLayer.tsx):                      *)
(*   fetch -> direct load -> (ZSTD decompression -> second load) ->        *)
(*   processParquetData -> setData/onLoad or setError/onError.             *)
(*                                                                         *)
(* JavaScript values are tagged records (field t).  Numbers are fixed      *)
(* point, in tenths (40.7 is 407).  Text is a sequence of one-character    *)
(* strings.                                                                *)
(***************************************************************************)
EXTENDS Integers, Sequences, FiniteSets, TLC

\* ------------------------------------------------------------------ bounds
\* The number of effect runs (mount plus url changes) of the component.
MaxRuns == 2
\* The longest row sequence of a decoded table drawn for processParquetData.
MaxRows == 3
\* The longest schema (field-name sequence) drawn for processParquetData.
MaxFields == 3
\* The longest byte sequence drawn for decompressData.
MaxLen == 7
\* const CHUNK_SIZE = 1000000, scaled down.
CHUNK_SIZE == 3

\* ------------------------------------------------------- JavaScript values
Undefined == [t |-> "undefined"]
NaN == [t |-> "nan"]
Num(n) == [t |-> "num", v |-> n]
Str(s) == [t |-> "str", s |-> s]
Bin(b) == [t |-> "bin", bytes |-> b]
Arr(a) == [t |-> "array", items |-> a]
\* An object read only through its type and coordinates properties.
Obj(ty, co) == [t |-> "obj", type |-> ty, coordinates |-> co]

\* JavaScript truthiness, as tested by !x, x && y and if (x).
Truthy(v) ==
  CASE v.t = "undefined" -> FALSE
    [] v.t = "null" -> FALSE
    [] v.t = "nan" -> FALSE
    [] v.t = "num" -> v.v # 0
    [] v.t = "str" -> Len(v.s) > 0
    [] OTHER -> TRUE

\* row[k]: a property read; an absent key reads undefined.
Get(row, k) == IF k \in DOMAIN row THEN row[k] ELSE Undefined

\* x.type and x.coordinates of an arbitrary value: only objects carry them.
PropType(v) == IF v.t = "obj" THEN v.type ELSE Undefined
PropCoordinates(v) == IF v.t = "obj" THEN v.coordinates ELSE Undefined

\* ------------------------------------------------------------ text helpers
Digits == {"0", "1", "2", "3", "4", "5", "6", "7", "8", "9"}
LowerHex == {"a", "b", "c", "d", "e", "f"}
UpperHex == {"A", "B", "C", "D", "E", "F"}

DigitVal(c) ==
  CASE c = "0" -> 0 [] c = "1" -> 1 [] c = "2" -> 2 [] c = "3" -> 3
    [] c = "4" -> 4 [] c = "5" -> 5 [] c = "6" -> 6 [] c = "7" -> 7
    [] c = "8" -> 8 [] c = "9" -> 9

\* The number of leading characters of s, from position i, that are digits.
RECURSIVE DigitRun(_, _)
DigitRun(s, i) ==
  IF i <= Len(s) /\ s[i] \in Digits THEN 1 + DigitRun(s, i + 1) ELSE 0

\* The value of the n digits of s that start at position i.
RECURSIVE DigitsValue(_, _, _)
DigitsValue(s, i, n) ==
  IF n = 0 THEN 0
  ELSE DigitsValue(s, i, n - 1) * 10 + DigitVal(s[i + n - 1])

\* The number of leading blanks of s from position i.
RECURSIVE BlankRun(_, _)
BlankRun(s, i) ==
  IF i <= Len(s) /\ s[i] = " " THEN 1 + BlankRun(s, i + 1) ELSE 0

\* parseFloat on text: leading blanks, an optional sign, the longest decimal
\* prefix; NaN when no digit is found.  The value is kept in tenths.
ParseFloatText(s) ==
  LET b == 1 + BlankRun(s, 1)
      signed == b <= Len(s) /\ s[b] \in {"-", "+"}
      neg == signed /\ s[b] = "-"
      i == IF signed THEN b + 1 ELSE b
      n == DigitRun(s, i)
      dot == i + n <= Len(s) /\ s[i + n] = "."
      m == IF dot THEN DigitRun(s, i + n + 1) ELSE 0
      whole == DigitsValue(s, i, n)
      tenth == IF m > 0 THEN DigitVal(s[i + n + 1]) ELSE 0
      mag == whole * 10 + tenth
  IN IF n = 0 /\ m = 0 THEN NaN
     ELSE Num(IF neg THEN 0 - mag ELSE mag)

\* parseFloat(x): x is first converted to text.
parseFloat(v) ==
  CASE v.t = "num" -> v
    [] v.t = "str" -> ParseFloatText(v.s)
    [] v.t = "bin" -> IF Len(v.bytes) = 0 THEN NaN ELSE Num(v.bytes[1] * 10)
    [] OTHER -> NaN

\* -------------------------------------------------- external decoders
PointText == <<"P", "o", "i", "n", "t">>
Null == [t |-> "null"]

\* /^[0-9a-fA-F]+$/.test(s)
LooksLikeHexLowerOnly(s) ==
  Len(s) > 0 /\ \A i \in 1..Len(s) : s[i] \in Digits \cup LowerHex

LooksLikeHex(s) ==
  Len(s) > 0 /\ \A i \in 1..Len(s) : s[i] \in Digits \cup LowerHex \cup UpperHex

\* JSON.parse on the texts of the model.  Grammar: an object "{" member* "}"
\* whose members are the one-character abbreviations
\*   t  for  "type":"Point"
\*   k  for  "coordinates":[1,2]
\*   e  for  "coordinates":[]
\* a number (optional "-", digits, no leading zero), or the literal null.
\* Anything else is a SyntaxError (ok = FALSE).
JsonMembers == {"t", "k", "e"}

IsJsonObject(s) ==
  /\ Len(s) >= 2
  /\ s[1] = "{"
  /\ s[Len(s)] = "}"
  /\ \A i \in 2..(Len(s) - 1) : s[i] \in JsonMembers

IsJsonNumber(s) ==
  LET i == IF Len(s) > 0 /\ s[1] = "-" THEN 2 ELSE 1
      n == DigitRun(s, i)
  IN /\ n > 0
     /\ i + n - 1 = Len(s)
     /\ (n > 1 => s[i] # "0")

\* The last coordinates member of an object text wins.
RECURSIVE LastCoordinates(_, _)
LastCoordinates(s, i) ==
  IF i < 2 THEN Undefined
  ELSE IF s[i] = "k" THEN Arr(<<Num(10), Num(20)>>)
  ELSE IF s[i] = "e" THEN Arr(<<>>)
  ELSE LastCoordinates(s, i - 1)

JSONParse(s) ==
  IF IsJsonObject(s)
  THEN [ok |-> TRUE,
        value |-> Obj(IF \E i \in 2..(Len(s) - 1) : s[i] = "t"
                      THEN Str(PointText) ELSE Undefined,
                      LastCoordinates(s, Len(s) - 1))]
  ELSE IF IsJsonNumber(s)
  THEN [ok |-> TRUE,
        value |-> IF s[1] = "-" THEN Num(0 - 10 * DigitsValue(s, 2, Len(s) - 1))
                  ELSE Num(10 * DigitsValue(s, 1, Len(s)))]
  ELSE IF s = <<"n", "u", "l", "l">>
  THEN [ok |-> TRUE, value |-> Null]
  ELSE [ok |-> FALSE, value |-> Undefined]

\* wkbToGeojson on the byte sequences of the model: <<byteOrder, type, x, y>>
\* with byteOrder 0 or 1 and type 1 is a Point; anything else throws.
WkbValid(b) == Len(b) = 4 /\ b[1] \in {0, 1} /\ b[2] = 1

wkbToGeojson(b) == Obj(Str(PointText), Arr(<<Num(b[3] * 10), Num(b[4] * 10)>>))

\* -------------------------------------------------------- pipeline helpers
\* inputArray.subarray(begin, end): bytes begin..end-1, both clamped to the
\* length.
Subarray(a, begin, end) ==
  SubSeq(a, begin + 1, IF end > Len(a) THEN Len(a) ELSE end)

\* The loop of lines 54-56, from index i on.
RECURSIVE ChunksFrom(_, _)
ChunksFrom(inputArray, i) ==
  IF i <= Len(inputArray)
  THEN <<Subarray(inputArray, i, i + CHUNK_SIZE)>>
       \o ChunksFrom(inputArray, i + CHUNK_SIZE)
  ELSE <<>>

createPointFromCoordinates(lat, lon) ==
  Obj(Str(PointText), Arr(<<parseFloat(lon), parseFloat(lat)>>))

\* const geometryColumns = ['geometry', 'geom', 'the_geom', 'wkb_geometry']
geometryColumns == <<"geometry", "geom", "the_geom", "wkb_geometry">>

NoColumn == "<null>"

\* schema.fields.some(f => f.name === name)
HasField(fields, name) == \E i \in 1..Len(fields) : fields[i] = name

\* The loop over geometryColumns with break at the first name found.
RECURSIVE FirstCandidateFrom(_, _)
FirstCandidateFrom(fields, c) ==
  IF c > Len(geometryColumns) THEN NoColumn
  ELSE IF HasField(fields, geometryColumns[c]) THEN geometryColumns[c]
  ELSE FirstCandidateFrom(fields, c + 1)

\* The same search driven by the order of the schema's fields.
RECURSIVE FirstFieldCandidateFrom(_, _)
FirstFieldCandidateFrom(fields, i) ==
  IF i > Len(fields) THEN NoColumn
  ELSE IF \E c \in 1..Len(geometryColumns) : geometryColumns[c] = fields[i]
  THEN fields[i]
  ELSE FirstFieldCandidateFrom(fields, i + 1)

FindGeometryColumnBySchemaOrder(fields) == FirstFieldCandidateFrom(fields, 1)

FindGeometryColumn(fields) == FirstCandidateFrom(fields, 1)

\* ------------------------------------------------- per-row geometry decode
\* Case 1 (lines 171-177): a binary value is handed to wkbToGeojson; a throw
\* is caught and leaves geometry null.
StepWkb(raw) ==
  IF raw.t = "bin" /\ WkbValid(raw.bytes) THEN wkbToGeojson(raw.bytes) ELSE Null

\* Case 2 (lines 180-192): text that does not look like hex is JSON-parsed and
\* kept when the parsed value has type and coordinates.
JsonAttempted(g, raw) ==
  ~Truthy(g) /\ raw.t = "str" /\ ~LooksLikeHex(raw.s)

StepJson(g, raw) ==
  IF JsonAttempted(g, raw)
  THEN LET p == JSONParse(raw.s)
       IN IF /\ p.ok
             /\ Truthy(p.value)
             /\ Truthy(PropType(p.value))
             /\ Truthy(PropCoordinates(p.value))
          THEN p.value ELSE g
  ELSE g

\* Case 3 (lines 195-197): the raw value itself has type and coordinates.
StepObject(g, raw) ==
  IF ~Truthy(g) /\ Truthy(PropType(raw)) /\ Truthy(PropCoordinates(raw))
  THEN raw ELSE g

\* The latitude/longitude point taken whatever the earlier cases produced.
StepLatLonFirst(g, row) ==
  IF Truthy(Get(row, "latitude")) /\ Truthy(Get(row, "longitude"))
  THEN createPointFromCoordinates(Get(row, "latitude"), Get(row, "longitude"))
  ELSE g

\* Fallback (lines 200-202): a point from the row's latitude and longitude.
StepLatLon(g, row) ==
  IF ~Truthy(g) /\ Truthy(Get(row, "latitude")) /\ Truthy(Get(row, "longitude"))
  THEN createPointFromCoordinates(Get(row, "latitude"), Get(row, "longitude"))
  ELSE g

\* {...row, [geometryColumn]: undefined}
PropertiesWithout(row, col) ==
  [k \in DOMAIN row \cup {col} |-> IF k = col THEN Undefined ELSE row[k]]

\* One iteration of the loop over rows of the geometry-column branch
\* (lines 161-214).  skipped: the continue of line 166 was taken.  steps: the
\* decoders that were run on the value.  threw: an exception reached the
\* catch of line 211.
DecodeRow(row, col) ==
  LET raw == Get(row, col)
      g1 == StepWkb(raw)
      g2 == StepJson(g1, raw)
      g3 == StepObject(g2, raw)
      g4 == StepLatLon(g3, row)
  IN IF ~Truthy(raw)
     THEN [skipped |-> TRUE, geometry |-> Null, steps |-> <<>>, threw |-> FALSE]
     ELSE [skipped |-> FALSE,
           geometry |-> g4,
           steps |-> (IF raw.t = "bin" THEN <<"wkb">> ELSE <<>>)
                     \o (IF JsonAttempted(g1, raw) THEN <<"json">> ELSE <<>>)
                     \o (IF ~Truthy(g2) THEN <<"object">> ELSE <<>>)
                     \o (IF ~Truthy(g3) THEN <<"latlon">> ELSE <<>>),
           threw |-> FALSE]

\* features.push({type: 'Feature', geometry, properties}); src is the index of
\* the row the feature comes from.
Feature(i, g, props) ==
  [type |-> "Feature", src |-> i, geometry |-> g, properties |-> props]

\* push at the front of the output instead of at its end.
PushDecodedFront(before, n, row, col, d) ==
  IF d.skipped \/ ~Truthy(d.geometry) THEN before
  ELSE <<Feature(n, d.geometry, PropertiesWithout(row, col))>> \o before

\* Lines 204-210: a row whose decode left a geometry is pushed.
PushDecoded(before, n, row, col, d) ==
  IF ~d.skipped /\ Truthy(d.geometry)
  THEN Append(before, Feature(n, d.geometry, PropertiesWithout(row, col)))
  ELSE before

\* The loop of lines 161-214 over rows 1..n.
RECURSIVE GeometryFeatures(_, _, _)
GeometryFeatures(rows, col, n) ==
  IF n = 0 THEN <<>>
  ELSE PushDecoded(GeometryFeatures(rows, col, n - 1), n, rows[n], col,
                   DecodeRow(rows[n], col))

\* The loop of lines 144-152 over rows 1..n.
\* Lines 145-151: a row with truthy latitude and longitude is pushed.
PushLatLon(before, n, row) ==
  IF Truthy(Get(row, "latitude")) /\ Truthy(Get(row, "longitude"))
  THEN Append(before,
              Feature(n,
                      createPointFromCoordinates(Get(row, "latitude"),
                                                 Get(row, "longitude")),
                      row))
  ELSE before

RECURSIVE LatLonFeatures(_, _)
LatLonFeatures(rows, n) ==
  IF n = 0 THEN <<>>
  ELSE PushLatLon(LatLonFeatures(rows, n - 1), n, rows[n])

\* ------------------------------------------------------ processParquetData
\* The decoder's output: a bare array of rows (isArray) or an object with
\* data and, possibly, a schema.
ParquetData(isArray, schema, rows) ==
  [isArray |-> isArray, schema |-> schema, data |-> rows]

Schema(fields) == [t |-> "schema", fields |-> fields]

\* Array.isArray(parquetData) ? parquetData : parquetData.data
RowsOf(pd) == pd.data

\* Lines 122-136: the geometry column, from the schema when there is one.
ResolveColumn(pd) ==
  IF Truthy(pd.schema) THEN FindGeometryColumn(pd.schema.fields) ELSE NoColumn

\* Lines 140-141: the schema names both latitude and longitude.
UsesLatLon(pd) ==
  /\ Truthy(pd.schema)
  /\ HasField(pd.schema.fields, "latitude")
  /\ HasField(pd.schema.fields, "longitude")

\* Line 217.
NoFeatures(features) == Len(features) = 0

\* The rows' decode records (lines 161-214), in row order; empty outside the
\* geometry-column branch.
RECURSIVE DecodedRows(_, _, _)
DecodedRows(rows, col, n) ==
  IF n = 0 THEN <<>>
  ELSE Append(DecodedRows(rows, col, n - 1), DecodeRow(rows[n], col))

ProcessOutcome(kind, error, column, features, decoded) ==
  [kind |-> kind, error |-> error, column |-> column, features |-> features,
   decoded |-> decoded]

\* Lines 138-231 once the column is known: features are the rows' features
\* of the branch taken, decoded the decode records of the geometry branch.
Assemble(pd, mounted, col, features, decoded) ==
  IF ~mounted THEN ProcessOutcome("return", "none", NoColumn, <<>>, <<>>)
  ELSE IF col = NoColumn /\ ~UsesLatLon(pd)
  THEN ProcessOutcome("throw", "NoGeometry", col, <<>>, <<>>)
  ELSE IF NoFeatures(features)
  THEN ProcessOutcome("throw", "EmptyResult", col, <<>>, decoded)
  ELSE ProcessOutcome("publish", "none", col, features, decoded)

\* Lines 138-215: the features of the rows, by the branch col selects.
FeaturesBy(rows, col) ==
  IF col = NoColumn
  THEN LatLonFeatures(rows, Len(rows))
  ELSE GeometryFeatures(rows, col, Len(rows))

DecodedBy(rows, col) ==
  IF col = NoColumn THEN <<>> ELSE DecodedRows(rows, col, Len(rows))

ProcessWith(pd, mounted, col) ==
  Assemble(pd, mounted, col, FeaturesBy(RowsOf(pd), col), DecodedBy(RowsOf(pd), col))

\* processParquetData(parquetData), lines 117-232.  kind is "return" for the
\* early return of an unmounted run, "throw" with the error thrown, or
\* "publish" when setData and onLoad are reached with the collection.
processParquetData(pd, mounted) == ProcessWith(pd, mounted, ResolveColumn(pd))

\* ----------------------------------------------------------------- state
VARIABLES
  pc,            \* per run: where loadData stands
  isMounted,     \* per run: the isMounted flag of its effect closure
  url,           \* per run: what the url of the run serves
  calls,         \* per run: how often setData, setError, onLoad, onError ran
  delivered,     \* per run: the error handed to setError / onError
  load1,         \* per run: outcome of the direct load()
  procError,     \* per run: the error the first processParquetData threw
  decompressed,  \* per run: decompressData was called
  codecGot,      \* per run: what preloadZstd resolved to
  zstdPromise,   \* module level: let zstdPromise
  zstd,          \* module level: let zstd
  initStarts,    \* module level: the number of ZstdCodec.run calls
  loads,         \* per run: the number of load() calls made
  data,          \* component state: useState data
  error,         \* component state: useState error
  cur,           \* the run of the latest effect, 0 before the first
  unmounted,     \* the component was unmounted
  pd,            \* the decoder output handed to processParquetData
  result,        \* what processParquetData made of pd
  input,         \* the bytes handed to decompressData
  chunks         \* the chunk list decompressData hands to the codec

pipelineVars ==
  <<pc, isMounted, url, calls, delivered, load1, procError, decompressed,
    codecGot, zstdPromise, zstd, initStarts, loads, data, error, cur, unmounted>>

rowVars == <<pd, result>>
chunkVars == <<input, chunks>>

vars == <<pipelineVars, rowVars, chunkVars>>

Runs == 1..MaxRuns

\* ----------------------------------------------------------------- inputs
FieldNames ==
  {"geometry", "geom", "the_geom", "wkb_geometry", "latitude", "longitude", "name"}

Distinct(f) == \A i, j \in DOMAIN f : i # j => f[i] # f[j]

\* Every schema of at most MaxFields distinct fields, in every order.
AllSchemas ==
  {f \in UNION {[1..n -> FieldNames] : n \in 0..MaxFields} : Distinct(f)}

NoSchema == Undefined

ValidWkb == Bin(<<1, 1, 3, 4>>)
PointObject == Obj(Str(PointText), Arr(<<Num(10), Num(20)>>))

\* Values met in a geometry column.  Undefined stands for an absent key.
GeometryValues ==
  { Undefined, Null, Num(0), Str(<<>>),
    ValidWkb, Bin(<<1, 9, 3, 4>>), Bin(<<>>),
    Str(<<"0", "f">>), Str(<<"0", "F">>), Str(<<"1", "2">>),
    Str(<<"{", "t", "k", "}">>), Str(<<"{", "t", "}">>),
    Str(<<"{", "t", "e", "}">>), Str(<<"x", "y">>), Str(<<"n", "u", "l", "l">>),
    PointObject, Obj(Str(PointText), Undefined), Obj(Str(PointText), Arr(<<>>)) }

\* (latitude, longitude) values of a row.
LatLonPairs ==
  { <<Undefined, Undefined>>,
    <<Str(<<"4", "0", ".", "7">>), Str(<<"-", "7", "4", ".", "0">>)>>,
    <<Num(407), Num(0 - 740)>>,
    <<Num(0), Num(50)>>,
    <<Str(<<"a", "b", "c">>), Str(<<"1">>)>>,
    <<Str(<<"4", "0", ".", "7">>), Undefined>> }

\* A row with geometry value g under column col; keys whose value is
\* undefined are left out of the row.
MkRow(col, g, lat, lon) ==
  LET all == [k \in {col, "latitude", "longitude", "name"} |->
                CASE k = col -> g
                  [] k = "latitude" -> lat
                  [] k = "longitude" -> lon
                  [] OTHER -> Str(<<"a">>)]
      keys == {k \in DOMAIN all : all[k].t # "undefined"}
  IN [k \in keys |-> all[k]]

AllRows ==
  { MkRow(col, g, ll[1], ll[2]) :
      col \in {"geometry", "geom"}, g \in GeometryValues, ll \in LatLonPairs }

\* A row that carries a valid geometry under every candidate name and a
\* latitude / longitude pair.
FullRow ==
  [k \in FieldNames |->
     CASE k = "latitude" -> Str(<<"4", "0", ".", "7">>)
       [] k = "longitude" -> Str(<<"-", "7", "4", ".", "0">>)
       [] k = "name" -> Str(<<"a">>)
       [] OTHER -> ValidWkb]

\* Rows used in tables of several rows.
OrderRows ==
  { MkRow("geometry", ValidWkb, Undefined, Undefined),
    MkRow("geometry", Str(<<"0", "f">>), Undefined, Undefined),
    MkRow("geometry", Undefined, Num(407), Num(0 - 740)),
    MkRow("geometry", Str(<<"{", "t", "k", "}">>), Num(0), Num(50)),
    MkRow("geom", PointObject, Undefined, Undefined) }

\* The shapes of the decoder's output: with a schema, without one, bare array.
Shapes ==
  { <<FALSE, Schema(<<"geometry", "name">>)>>,
    <<FALSE, Schema(<<"geometry", "latitude", "longitude">>)>>,
    <<FALSE, Schema(<<"latitude", "longitude">>)>>,
    <<FALSE, Schema(<<"wkb_geometry", "geom">>)>>,
    <<FALSE, Schema(<<"name">>)>>,
    <<FALSE, NoSchema>>,
    <<TRUE, NoSchema>> }

RowSeqs(n) == UNION {[1..k -> OrderRows] : k \in 2..n}

Tables ==
  {ParquetData(FALSE, Schema(f), <<FullRow>>) : f \in AllSchemas}
  \cup {ParquetData(sh[1], sh[2], <<row>>) : sh \in Shapes, row \in AllRows}
  \cup {ParquetData(sh[1], sh[2], rows) : sh \in Shapes, rows \in RowSeqs(MaxRows)}
  \cup {ParquetData(sh[1], sh[2], <<>>) : sh \in Shapes}

Pending == [kind |-> "pending"]

\* What a url serves: a Parquet file, a ZSTD frame around other bytes, or
\* bytes that are neither.
Parquet(table) == [enc |-> "parquet", table |-> table]
Zstd(inner) == [enc |-> "zstd", inner |-> inner]
Garbage == [enc |-> "garbage"]

Served(bytes) == [ok |-> TRUE, bytes |-> bytes]
FetchFails == [ok |-> FALSE, bytes |-> Garbage]
NoUrl == [ok |-> FALSE, bytes |-> [enc |-> "none"]]

GoodTable ==
  ParquetData(FALSE, Schema(<<"geometry", "name">>),
              <<MkRow("geometry", ValidWkb, Undefined, Undefined)>>)
NoGeometryTable ==
  ParquetData(FALSE, Schema(<<"name">>),
              <<MkRow("geometry", ValidWkb, Undefined, Undefined)>>)
EmptyResultTable ==
  ParquetData(FALSE, Schema(<<"geometry", "name">>),
              <<MkRow("geometry", Str(<<"0", "f">>), Undefined, Undefined)>>)
LatLonTable ==
  ParquetData(FALSE, Schema(<<"latitude", "longitude">>),
              <<MkRow("geometry", Undefined, Num(407), Num(0 - 740))>>)

Urls ==
  { FetchFails,
    Served(Garbage),
    Served(Parquet(GoodTable)),
    Served(Parquet(NoGeometryTable)),
    Served(Parquet(EmptyResultTable)),
    Served(Parquet(LatLonTable)),
    Served(Zstd(Parquet(GoodTable))),
    Served(Zstd(Parquet(EmptyResultTable))),
    Served(Zstd(Garbage)) }

\* load(bytes, ParquetLoader, ...) resolves for Parquet bytes and rejects for
\* anything else (lines 80 and 103).
LoadOk(bytes) == bytes.enc = "parquet"

\* simpleZstd.decompressChunks(chunks) yields the framed bytes and throws on
\* anything that is no ZSTD frame (line 58).
DecompressOk(bytes) == bytes.enc = "zstd"

NoCalls == [setData |-> 0, setError |-> 0, onLoad |-> 0, onError |-> 0]

\* ------------------------------------------------------------------- Init
InitPipeline ==
  /\ pc = [r \in Runs |-> "idle"]
  /\ isMounted = [r \in Runs |-> FALSE]
  /\ url = [r \in Runs |-> NoUrl]
  /\ calls = [r \in Runs |-> NoCalls]
  /\ delivered = [r \in Runs |-> "none"]
  /\ load1 = [r \in Runs |-> "pending"]
  /\ procError = [r \in Runs |-> "none"]
  /\ decompressed = [r \in Runs |-> FALSE]
  /\ codecGot = [r \in Runs |-> "none"]
  /\ zstdPromise = "unset"
  /\ zstd = "undefined"
  /\ initStarts = 0
  /\ loads = [r \in Runs |-> 0]
  /\ data = Null
  /\ error = "none"
  /\ cur = 0
  /\ unmounted = FALSE

NotChunked == [made |-> FALSE, list |-> <<>>]

\* Every byte sequence of at most MaxLen bytes.
Inputs == UNION {[1..n -> {0, 1}] : n \in 0..MaxLen}

Init ==
  /\ InitPipeline
  /\ pd = GoodTable
  /\ result = Pending
  /\ input = <<>>
  /\ chunks = NotChunked

InitRows ==
  /\ InitPipeline
  /\ pd \in Tables
  /\ result = Pending
  /\ input = <<>>
  /\ chunks = NotChunked

InitChunks ==
  /\ InitPipeline
  /\ pd = GoodTable
  /\ result = Pending
  /\ input \in Inputs
  /\ chunks = NotChunked

\* ------------------------------------------------- publishing and failing
\* Lines 228-231: setData(geojson); if (onLoad) onLoad().
ReportSuccess(c) == [c EXCEPT !.setData = @ + 1, !.onLoad = @ + 1]

\* The catch handler that forgets the callback.
ReportFailureStateOnly(c) == [c EXCEPT !.setError = @ + 1]

\* Lines 112-113: setError(err); if (onError) onError(err).
ReportFailure(c) == [c EXCEPT !.setError = @ + 1, !.onError = @ + 1]

FeatureCollection(features) == [t |-> "FeatureCollection", features |-> features]

\* The run ends without publishing (return of line 88, early return of 118).
Finish(r) ==
  /\ pc' = [pc EXCEPT ![r] = "done"]
  /\ UNCHANGED <<calls, delivered, data, error>>

\* processParquetData reached setData / onLoad.  A state update of an
\* unmounted component is dropped by React.
Publish(r, features) ==
  /\ pc' = [pc EXCEPT ![r] = "done"]
  /\ calls' = [calls EXCEPT ![r] = ReportSuccess(@)]
  /\ data' = IF unmounted THEN data ELSE FeatureCollection(features)
  /\ UNCHANGED <<delivered, error>>

\* The outer catch handing over the error of the rejected direct load().
FailWithFirstError(r, e) ==
  /\ pc' = [pc EXCEPT ![r] = "done"]
  /\ calls' = [calls EXCEPT ![r] = ReportFailure(@)]
  /\ delivered' = [delivered EXCEPT ![r] =
                     IF load1[r] = "failed" THEN "DirectDecode" ELSE e]
  /\ error' = IF unmounted THEN error ELSE e
  /\ UNCHANGED data

\* The outer catch of loadData, lines 110-114.
Fail(r, e) ==
  /\ pc' = [pc EXCEPT ![r] = "done"]
  /\ calls' = [calls EXCEPT ![r] = ReportFailure(@)]
  /\ delivered' = [delivered EXCEPT ![r] = e]
  /\ error' = IF unmounted THEN error ELSE e
  /\ UNCHANGED data

\* ----------------------------------------------------------- preloadZstd
\* if (!zstd)
CodecMissing == zstd = "undefined"

\* if (!zstdPromise), line 41.
NeedsInit == zstdPromise = "unset"

\* decompressData(arrayBuffer) up to its first suspension (lines 48-58, with
\* preloadZstd, lines 40-46).  The first caller starts ZstdCodec.run and
\* waits for it; any other caller gets the value zstd has at that moment;
\* new codec.Streaming() on undefined is a TypeError, which reaches the
\* outer catch.
EnterDecompress(r) ==
  /\ decompressed' = [decompressed EXCEPT ![r] = TRUE]
  /\ IF NeedsInit
     THEN /\ zstdPromise' = "set"
          /\ initStarts' = initStarts + 1
          /\ pc' = [pc EXCEPT ![r] = "preload"]
          /\ UNCHANGED <<zstd, codecGot, calls, delivered, data, error>>
     ELSE /\ codecGot' = [codecGot EXCEPT ![r] = zstd]
          /\ UNCHANGED <<zstdPromise, zstd, initStarts>>
          /\ IF zstd = "undefined"
             THEN Fail(r, "TypeError")
             ELSE /\ pc' = [pc EXCEPT ![r] = "decompress"]
                  /\ UNCHANGED <<calls, delivered, data, error>>

\* ---------------------------------------------------------------- actions
\* The effect of lines 37-239 runs: on mount, and again when url, onLoad or
\* onError change, after the cleanup of the previous run (line 237).  The new
\* run executes loadData up to await fetch(url).
RunEffect(u) ==
  /\ ~unmounted
  /\ cur < MaxRuns
  /\ cur' = cur + 1
  /\ isMounted' = [r \in Runs |-> r = cur + 1]
  /\ pc' = [pc EXCEPT ![cur + 1] = "fetch"]
  /\ url' = [url EXCEPT ![cur + 1] = u]
  /\ UNCHANGED <<calls, delivered, load1, procError, decompressed, codecGot,
                 zstdPromise, zstd, initStarts, loads, data, error, unmounted>>
  /\ UNCHANGED <<rowVars, chunkVars>>

\* The component unmounts: the cleanup of the current run (line 237).
Unmount ==
  /\ ~unmounted
  /\ cur > 0
  /\ unmounted' = TRUE
  /\ isMounted' = [r \in Runs |-> FALSE]
  /\ UNCHANGED <<pc, url, calls, delivered, load1, procError, decompressed,
                 codecGot, zstdPromise, zstd, initStarts, loads, data, error,
                 cur>>
  /\ UNCHANGED <<rowVars, chunkVars>>

\* fetch(url) and response.arrayBuffer() settle (lines 74-75); on success
\* load() is called on the bytes (line 80).
FetchSettle(r) ==
  /\ pc[r] = "fetch"
  /\ IF url[r].ok
     THEN /\ pc' = [pc EXCEPT ![r] = "load1"]
          /\ loads' = [loads EXCEPT ![r] = @ + 1]
          /\ UNCHANGED <<calls, delivered, data, error>>
     ELSE Fail(r, "Fetch") /\ UNCHANGED loads
  /\ UNCHANGED <<isMounted, url, load1, procError, decompressed, codecGot,
                 zstdPromise, zstd, initStarts, cur, unmounted>>
  /\ UNCHANGED <<rowVars, chunkVars>>

\* Lines 87-95: what follows processParquetData on the directly loaded rows.
AfterDirectLoad(r, out) ==
  /\ procError' = [procError EXCEPT ![r] = out.error]
  /\ CASE out.kind = "publish" ->
            /\ Publish(r, out.features)
            /\ UNCHANGED <<decompressed, codecGot, zstdPromise, zstd, initStarts>>
       [] out.kind = "return" ->
            /\ Finish(r)
            /\ UNCHANGED <<decompressed, codecGot, zstdPromise, zstd, initStarts>>
       [] out.kind = "throw" -> EnterDecompress(r)

\* The direct load() settles (lines 79-91).  Resolved: processParquetData
\* runs inside the same try, so whatever it throws is caught by the catch of
\* line 89 exactly like a rejected load(), and decompressData follows
\* (line 95).
Load1Settle(r) ==
  /\ pc[r] = "load1"
  /\ IF LoadOk(url[r].bytes)
     THEN /\ load1' = [load1 EXCEPT ![r] = "ok"]
          /\ AfterDirectLoad(r, processParquetData(url[r].bytes.table, isMounted[r]))
     ELSE /\ load1' = [load1 EXCEPT ![r] = "failed"]
          /\ UNCHANGED procError
          /\ EnterDecompress(r)
  /\ UNCHANGED <<isMounted, url, loads, cur, unmounted>>
  /\ UNCHANGED <<rowVars, chunkVars>>

\* ZstdCodec.run calls back and zstdPromise resolves; the caller that started
\* it resumes at line 43, stores the codec in zstd, returns it, and
\* decompressData goes on to decompressChunks (lines 50-58).
CodecReady(r) ==
  /\ pc[r] = "preload"
  /\ zstd' = "codec"
  /\ codecGot' = [codecGot EXCEPT ![r] = "codec"]
  /\ pc' = [pc EXCEPT ![r] = "decompress"]
  /\ UNCHANGED <<isMounted, url, calls, delivered, load1, procError,
                 decompressed, zstdPromise, initStarts, loads, data, error,
                 cur, unmounted>>
  /\ UNCHANGED <<rowVars, chunkVars>>

\* decompressChunks settles (lines 58-59); on success the second load() is
\* called on the decompressed bytes (line 103).
DecompressSettle(r) ==
  /\ pc[r] = "decompress"
  /\ IF DecompressOk(url[r].bytes)
     THEN /\ pc' = [pc EXCEPT ![r] = "load2"]
          /\ loads' = [loads EXCEPT ![r] = @ + 1]
          /\ UNCHANGED <<calls, delivered, data, error>>
     ELSE Fail(r, "Decompression") /\ UNCHANGED loads
  /\ UNCHANGED <<isMounted, url, load1, procError, decompressed, codecGot,
                 zstdPromise, zstd, initStarts, cur, unmounted>>
  /\ UNCHANGED <<rowVars, chunkVars>>

\* Line 109 and the catch of line 110: what follows processParquetData on the
\* rows loaded from the decompressed bytes.
AfterSecondLoad(r, out) ==
  CASE out.kind = "publish" -> Publish(r, out.features)
    [] out.kind = "return" -> Finish(r)
    [] out.kind = "throw" -> Fail(r, out.error)

\* The second load() settles (lines 103-109); processParquetData now runs
\* under the outer try only.
Load2Settle(r) ==
  /\ pc[r] = "load2"
  /\ IF LoadOk(url[r].bytes.inner)
     THEN AfterSecondLoad(r, processParquetData(url[r].bytes.inner.table,
                                                isMounted[r]))
     ELSE Fail(r, "Decode")
  /\ UNCHANGED <<isMounted, url, load1, procError, decompressed, codecGot,
                 zstdPromise, zstd, initStarts, loads, cur, unmounted>>
  /\ UNCHANGED <<rowVars, chunkVars>>

\* What the component returns (lines 241-273): the error box while error is
\* set, the loading box while there is no data, the map otherwise.
Render ==
  IF error # "none" THEN "error"
  ELSE IF data = Null THEN "loading"
  ELSE "map"

Next ==
  \/ \E u \in Urls : RunEffect(u)
  \/ Unmount
  \/ \E r \in Runs : FetchSettle(r)
  \/ \E r \in Runs : Load1Settle(r)
  \/ \E r \in Runs : CodecReady(r)
  \/ \E r \in Runs : DecompressSettle(r)
  \/ \E r \in Runs : Load2Settle(r)

Spec == Init /\ [][Next]_vars

\* processParquetData applied to a decoder output, for a mounted and for an
\* unmounted run.
Process ==
  /\ result = Pending
  /\ \E m \in BOOLEAN : result' = processParquetData(pd, m)
  /\ UNCHANGED pd
  /\ UNCHANGED <<pipelineVars, chunkVars>>

\* decompressData, lines 51-56: the input is cut into the chunks handed to
\* decompressChunks.
ChunkInput ==
  /\ ~chunks.made
  /\ chunks' = [made |-> TRUE, list |-> ChunksFrom(input, 0)]
  /\ UNCHANGED input
  /\ UNCHANGED <<pipelineVars, rowVars>>

NextChunks == ChunkInput

SpecChunks == InitChunks /\ [][NextChunks]_vars

\* ------------------------------------- the wkx-based variant (part_001)
\* Buffer.from(text, 'binary'): one byte per character, its code.
CharCode(c) ==
  CASE c \in Digits -> 48 + DigitVal(c)
    [] c = "a" -> 97 [] c = "b" -> 98 [] c = "c" -> 99 [] c = "d" -> 100
    [] c = "e" -> 101 [] c = "f" -> 102 [] c = "k" -> 107 [] c = "l" -> 108
    [] c = "n" -> 110 [] c = "t" -> 116 [] c = "u" -> 117 [] c = "x" -> 120
    [] c = "y" -> 121
    [] c = "A" -> 65 [] c = "B" -> 66 [] c = "C" -> 67 [] c = "D" -> 68
    [] c = "E" -> 69 [] c = "F" -> 70
    [] c = "{" -> 123 [] c = "}" -> 125 [] c = "-" -> 45 [] c = "." -> 46
    [] c = " " -> 32
    [] OTHER -> 63

BinaryBytes(s) == [i \in 1..Len(s) |-> CharCode(s[i])]

\* wkx.Geometry.parse(buffer).toGeoJSON() (lines 131-137): a binary value, or a
\* text turned into bytes, is parsed as WKB; a throw is caught at line 157 and
\* the row yields null.  Any other value leaves geometry null.
WkxGeometry(raw) ==
  IF ~Truthy(raw) THEN Null
  ELSE IF raw.t = "bin"
  THEN (IF WkbValid(raw.bytes) THEN wkbToGeojson(raw.bytes) ELSE Null)
  ELSE IF raw.t = "str"
  THEN (IF WkbValid(BinaryBytes(raw.s)) THEN wkbToGeojson(BinaryBytes(raw.s)) ELSE Null)
  ELSE Null

\* The digits of a natural number, as text.
RECURSIVE NatText(_)
NatText(n) ==
  IF n < 10 THEN <<CHOOSE c \in Digits : DigitVal(c) = n>>
  ELSE Append(NatText(n \div 10), CHOOSE c \in Digits : DigitVal(c) = n % 10)

\* String(number), the number being kept in tenths.
NumText(v) ==
  LET mag == IF v < 0 THEN 0 - v ELSE v
  IN (IF v < 0 THEN <<"-">> ELSE <<>>)
     \o NatText(mag \div 10)
     \o (IF mag % 10 = 0 THEN <<>> ELSE <<".">> \o NatText(mag % 10))

\* TextDecoder().decode(bytes): one character per byte; bytes that are no
\* character of the alphabet above decode to the replacement "?".
ByteChar(b) ==
  IF \E c \in Digits \cup LowerHex \cup UpperHex : CharCode(c) = b
  THEN CHOOSE c \in Digits \cup LowerHex \cup UpperHex : CharCode(c) = b
  ELSE "?"

\* decodeUint8Array(value), lines 104-109.
decodeUint8Array(v) ==
  CASE v.t = "bin" -> Str([i \in 1..Len(v.bytes) |-> ByteChar(v.bytes[i])])
    [] v.t = "str" -> v
    [] v.t = "num" -> Str(NumText(v.v))
    [] v.t = "null" -> Str(<<"n", "u", "l", "l">>)
    [] v.t = "nan" -> Str(<<"N", "a", "N">>)
    [] v.t = "undefined" ->
         Str(<<"u", "n", "d", "e", "f", "i", "n", "e", "d">>)
    [] OTHER -> Str(<<"[", "o", "b", "j", "e", "c", "t", "]">>)

\* Lines 146-150: the row's entries without geometry, each value decoded.
WkxProperties(row) ==
  [k \in DOMAIN row \ {"geometry"} |-> decodeUint8Array(row[k])]

\* The callback of rows.map (lines 126-160): a Feature, or null.
WkxMapRow(i, row, g) ==
  IF Truthy(g) THEN Feature(i, g, WkxProperties(row)) ELSE Null

\* rows.map(...), rows 1..n.
RECURSIVE WkxMapped(_, _)
WkxMapped(rows, n) ==
  IF n = 0 THEN <<>>
  ELSE Append(WkxMapped(rows, n - 1),
              WkxMapRow(n, rows[n], WkxGeometry(Get(rows[n], "geometry"))))

\* .filter(Boolean), line 161: an entry is a Feature object or null.
RECURSIVE FilterBoolean(_, _)
FilterBoolean(mapped, n) ==
  IF n = 0 THEN <<>>
  ELSE IF mapped[n] # Null
  THEN Append(FilterBoolean(mapped, n - 1), mapped[n])
  ELSE FilterBoolean(mapped, n - 1)

extractFeatures(rows) == FilterBoolean(WkxMapped(rows, Len(rows)), Len(rows))

WkxOutcome(outcome, e, features, c) ==
  [kind |-> "wkx", outcome |-> outcome, error |-> e, features |-> features,
   calls |-> c]

\* loadParquetData (lines 29-74) once load(url) has settled with the decoder
\* output pd, or rejected.  The view-state update of lines 52-61 is left out.
loadParquetData(loadOk, mounted) ==
  IF ~loadOk \/ ~pd.isArray
  THEN (IF mounted
        THEN WkxOutcome("error", IF loadOk THEN "NoData" ELSE "Load", <<>>,
                        ReportFailure(NoCalls))
        ELSE WkxOutcome("silent", "none", <<>>, NoCalls))
  ELSE IF mounted
  THEN WkxOutcome("publish", "none", extractFeatures(pd.data),
                  ReportSuccess(NoCalls))
  ELSE WkxOutcome("silent", "none", <<>>, NoCalls)

\* load(url) of the wkx-based variant settles and loadParquetData runs on.
LoadParquetData ==
  /\ result = Pending
  /\ \E loadOk \in BOOLEAN, m \in BOOLEAN : result' = loadParquetData(loadOk, m)
  /\ UNCHANGED pd
  /\ UNCHANGED <<pipelineVars, chunkVars>>

NextRows == Process \/ LoadParquetData

SpecRows == InitRows /\ [][NextRows]_vars

\* ================================================================ claims
\* Under Spec unless SpecRows is named.

\* A run whose effect cleanup has executed while one of its asynchronous
\* steps is outstanding.
TornDownInFlight(r) == pc[r] \notin {"idle", "done"} /\ ~isMounted[r]

\* C1: decompressData is invoked in a run only if the direct load() of the
\* fetched bytes failed; when the direct decode succeeded, decompression is
\* never invoked in that run, whatever processParquetData did.
C1_DecompressOnlyAfterFailedDecode ==
  \A r \in Runs : decompressed[r] => load1[r] = "failed"

\* C2: when the direct decode succeeded and processParquetData threw the
\* no-geometry or the empty-result error, the run is over, the pipeline went
\* no further, and that error is the one handed to setError / onError.
C2_ProcessingErrorDelivered ==
  \A r \in Runs :
    (load1[r] = "ok" /\ procError[r] \in {"NoGeometry", "EmptyResult"})
      => /\ pc[r] = "done"
         /\ ~decompressed[r]
         /\ delivered[r] = procError[r]

\* C3: a run that was torn down while an asynchronous step was outstanding
\* calls none of setData, setError, onLoad, onError from then on.
C3_TornDownRunIsSilent ==
  [][\A r \in Runs : TornDownInFlight(r) => calls'[r] = calls[r]]_vars

\* C4: every call of preloadZstd resolves to the initialised codec; no caller
\* receives undefined.
C4_EveryCallerGetsCodec ==
  \A r \in Runs : codecGot[r] \in {"none", "codec"}

\* C5: ZstdCodec.run is started at most once, by the first caller of
\* preloadZstd; every later caller finds zstdPromise set and starts nothing.
C5_InitStartedAtMostOnce ==
  /\ initStarts <= 1
  /\ (initStarts = 1 <=> zstdPromise = "set")

\* C5 witness: two runs have called preloadZstd and one initialisation was
\* started.
C5_Witness ==
  /\ \A r \in {1, 2} : decompressed[r]
  /\ initStarts = 1

\* C6: a run that was not torn down and has settled called exactly one of
\* onLoad and onError, exactly once: onLoad when it published with setData,
\* onError when it ended with an error.
C6_ExactlyOneCallback ==
  \A r \in Runs :
    (pc[r] = "done" /\ isMounted[r])
      => /\ calls[r].onLoad + calls[r].onError = 1
         /\ (calls[r].setData > 0 => calls[r].onLoad = 1 /\ calls[r].onError = 0)
         /\ (delivered[r] # "none" => calls[r].onError = 1 /\ calls[r].onLoad = 0)
         /\ (calls[r].setData > 0 \/ delivered[r] # "none")

\* C6 witness: a mounted run has ended in an error after the decompression
\* fallback and called onError once.
C6_Witness ==
  \E r \in Runs :
    /\ pc[r] = "done"
    /\ isMounted[r]
    /\ decompressed[r]
    /\ calls[r].onError = 1

\* ---- claims about processParquetData, under SpecRows

Processed == result.kind \in {"publish", "throw"}

CandidateNames == {geometryColumns[c] : c \in 1..Len(geometryColumns)}

HexCharacters ==
  { "0", "1", "2", "3", "4", "5", "6", "7", "8", "9",
    "a", "b", "c", "d", "e", "f", "A", "B", "C", "D", "E", "F" }

HexOnlyText(v) ==
  /\ v.t = "str"
  /\ Len(v.s) > 0
  /\ \A i \in 1..Len(v.s) : v.s[i] \in HexCharacters

Parseable(v) == v.t \in {"num", "str"} /\ parseFloat(v).t = "num"

\* C7: without a schema, resolution looks at the keys of the first row: a
\* first row with a candidate geometry column, or with latitude and
\* longitude, does not end in the no-geometry error.
C7_NoSchemaFallsBackToRowKeys ==
  ( /\ Processed
    /\ ~Truthy(pd.schema)
    /\ Len(pd.data) > 0
    /\ \/ DOMAIN pd.data[1] \cap CandidateNames # {}
       \/ {"latitude", "longitude"} \subseteq DOMAIN pd.data[1] )
    => result.error # "NoGeometry"

\* C8: whichever geometry source was resolved, every row whose geometry field
\* is absent and whose latitude and longitude are parseable yields a Feature
\* with the Point [longitude, latitude].
C8_AbsentGeometryUsesLatLon ==
  (Processed /\ result.error # "NoGeometry")
    => \A i \in 1..Len(pd.data) :
         ( /\ (result.column = NoColumn \/ ~Truthy(Get(pd.data[i], result.column)))
           /\ Parseable(Get(pd.data[i], "latitude"))
           /\ Parseable(Get(pd.data[i], "longitude")) )
           => \E k \in 1..Len(result.features) :
                /\ result.features[k].src = i
                /\ result.features[k].geometry
                     = Obj(Str(PointText),
                           Arr(<<parseFloat(Get(pd.data[i], "longitude")),
                                 parseFloat(Get(pd.data[i], "latitude"))>>))

\* C9: with a schema, the resolved geometry column is the earliest name of
\* the candidate list that is among the schema's field names, whatever the
\* order of the fields; none when the schema names no candidate.
C9_EarliestCandidateWins ==
  (Processed /\ Truthy(pd.schema))
    => LET names == {pd.schema.fields[i] : i \in 1..Len(pd.schema.fields)}
           present == {c \in 1..Len(geometryColumns) : geometryColumns[c] \in names}
       IN IF present = {}
          THEN result.column = NoColumn
          ELSE \E c \in present :
                 /\ \A d \in present : c <= d
                 /\ result.column = geometryColumns[c]

\* C9 witness: a schema that lists wkb_geometry before geom was resolved to
\* geom and the rows were published.
C9_Witness ==
  /\ result.kind = "publish"
  /\ Truthy(pd.schema)
  /\ pd.schema.fields = <<"wkb_geometry", "geom">>
  /\ result.column = "geom"

\* C10: a row whose geometry value is hex-only text is never JSON-parsed and
\* throws nothing; without latitude/longitude fields its geometry stays null
\* and it yields no feature, while the loop goes on over every row.
C10_HexTextSkipsJson ==
  (Processed /\ result.column # NoColumn)
    => /\ Len(result.decoded) = Len(pd.data)
       /\ \A i \in 1..Len(pd.data) :
            HexOnlyText(Get(pd.data[i], result.column))
              => /\ \A j \in 1..Len(result.decoded[i].steps) :
                      result.decoded[i].steps[j] # "json"
                 /\ ~result.decoded[i].threw
                 /\ ~result.decoded[i].skipped
                 /\ ("latitude" \notin DOMAIN pd.data[i]
                       \/ "longitude" \notin DOMAIN pd.data[i])
                      => /\ result.decoded[i].geometry = Null
                         /\ \A k \in 1..Len(result.features) :
                              result.features[k].src # i

\* C10 witness: a table whose first row holds hex-only text was published
\* with the feature of its second row only.
C10_Witness ==
  /\ result.kind = "publish"
  /\ Len(pd.data) = 2
  /\ HexOnlyText(Get(pd.data[1], result.column))
  /\ Len(result.features) = 1
  /\ result.features[1].src = 2

\* ---- further claims about the pipeline, under Spec

\* C11: a mounted run whose url serves a ZSTD frame around a Parquet file that
\* a direct run would publish ends by publishing, through the fallback, the
\* very FeatureCollection of that direct run, whatever the other runs do.
C11_FallbackEqualsDirect ==
  \A r \in Runs :
    ( /\ pc[r] = "done"
      /\ isMounted[r]
      /\ url[r].ok
      /\ url[r].bytes.enc = "zstd"
      /\ LoadOk(url[r].bytes.inner)
      /\ processParquetData(url[r].bytes.inner.table, TRUE).kind = "publish" )
      => /\ calls[r].setData = 1
         /\ calls[r].onLoad = 1
         /\ delivered[r] = "none"
         /\ data = FeatureCollection(
                     processParquetData(url[r].bytes.inner.table, TRUE).features)

\* ---- further claims about processParquetData, under SpecRows

\* C12: no property of a published Feature holds a binary value: the geometry
\* field is gone and every other binary value of the row is decoded to text,
\* in the geometry-column branch and in the latitude/longitude branch.
C12_NoBinaryInProperties ==
  result.kind = "publish"
    => \A k \in 1..Len(result.features) :
         \A key \in DOMAIN result.features[k].properties :
           result.features[k].properties[key].t # "bin"

\* C13: every published Feature has a geometry that is not null, carries a
\* type tag and has a non-empty coordinate sequence.
C13_GeometryStructurallyValid ==
  result.kind = "publish"
    => \A k \in 1..Len(result.features) :
         /\ result.features[k].geometry.t = "obj"
         /\ Truthy(result.features[k].geometry.type)
         /\ result.features[k].geometry.coordinates.t = "array"
         /\ Len(result.features[k].geometry.coordinates.items) > 0

\* ---- the order of the output, under SpecRows
Published ==
  \/ result.kind = "publish"
  \/ result.kind = "wkx" /\ result.outcome = "publish"

\* The property values feature f carries are those of the row it names.
FromItsRow(f) ==
  /\ f.src \in 1..Len(pd.data)
  /\ \A key \in DOMAIN f.properties \cap DOMAIN pd.data[f.src] :
       IF result.kind = "wkx"
       THEN f.properties[key] = decodeUint8Array(pd.data[f.src][key])
       ELSE key # result.column => f.properties[key] = pd.data[f.src][key]

\* C14: in both variants the published features are Feature objects, never a
\* placeholder, each comes from one input row, and they appear in the order of
\* those rows: the row indices are strictly increasing, so no row gives two
\* features and dropped rows leave no trace.
C14_FeaturesInRowOrder ==
  Published
    => \A k \in 1..Len(result.features) :
         /\ result.features[k] # Null
         /\ result.features[k].type = "Feature"
         /\ FromItsRow(result.features[k])
         /\ k < Len(result.features)
              => result.features[k].src < result.features[k + 1].src

\* Three rows, the middle one dropped, the outer two published in order.
C14_Witness ==
  /\ Published
  /\ Len(pd.data) = 3
  /\ Len(result.features) = 2
  /\ result.features[1].src = 1
  /\ result.features[2].src = 3

\* ---- the errors of the fallback, under Spec
\* decompressData threw for run r: the codec it got was undefined, or the
\* bytes were no ZSTD frame.
DecompressFailed(r) ==
  \/ codecGot[r] = "undefined"
  \/ codecGot[r] = "codec" /\ pc[r] = "done" /\ ~DecompressOk(url[r].bytes)

\* C15: a finished run whose direct load() was rejected called load() at most
\* twice and reported at most once; if decompressData failed, its error is the
\* one delivered, exactly once, and there was no second load(); if it
\* succeeded and the second load() was rejected, that rejection is the one
\* delivered, exactly once; the rejection of the direct load() is never
\* delivered.
C15_FinalCauseDeliveredOnce ==
  \A r \in Runs :
    (pc[r] = "done" /\ load1[r] = "failed")
      => /\ loads[r] <= 2
         /\ calls[r].setError <= 1
         /\ calls[r].onError = calls[r].setError
         /\ delivered[r] # "DirectDecode"
         /\ DecompressFailed(r)
              => /\ delivered[r] \in {"Decompression", "TypeError"}
                 /\ calls[r].setError = 1
                 /\ loads[r] = 1
         /\ (~DecompressFailed(r) /\ ~LoadOk(url[r].bytes.inner))
              => /\ delivered[r] = "Decode"
                 /\ calls[r].setError = 1
                 /\ loads[r] = 2

\* Both ends of the claim: one run fails in decompression, another in the
\* second load().
C15_Witness ==
  \E r, q \in Runs :
    /\ pc[r] = "done" /\ load1[r] = "failed" /\ delivered[r] = "Decompression"
    /\ pc[q] = "done" /\ load1[q] = "failed" /\ delivered[q] = "Decode"
    /\ loads[q] = 2

\* ---- the wkx-based variant, under SpecRows
\* C16: in the wkx-based variant setData / onLoad are never given a
\* FeatureCollection with zero features: a run whose rows yield no feature
\* reports an error instead.
C16_WkxZeroFeaturesFail ==
  result.kind = "wkx"
    => /\ result.calls.setData = 1 => Len(result.features) > 0
       /\ result.calls.onLoad = 1 => Len(result.features) > 0

\* ---- the fallback chain of one row, under SpecRows
\* What each step yields when run on its own.
WkbAlone(raw) == StepWkb(raw)
JsonAlone(raw) == StepJson(Null, raw)
ObjectAlone(raw) == StepObject(Null, raw)
LatLonAlone(row) == StepLatLon(Null, row)

\* The result of the first step, in the fixed order, that yields a geometry.
FirstProducing(raw, row) ==
  IF Truthy(WkbAlone(raw)) THEN WkbAlone(raw)
  ELSE IF Truthy(JsonAlone(raw)) THEN JsonAlone(raw)
  ELSE IF Truthy(ObjectAlone(raw)) THEN ObjectAlone(raw)
  ELSE LatLonAlone(row)

Ran(d, step) == \E j \in 1..Len(d.steps) : d.steps[j] = step

\* C17: for every row with a truthy geometry value the decoded geometry is
\* that of the first step, in the order WKB, JSON, object, latitude/longitude,
\* that yields one, and it is the geometry of the row's feature; JSON is run
\* only when WKB gave nothing, the object test only when WKB and JSON gave
\* nothing, latitude/longitude only when all three gave nothing; a binary
\* value wkbToGeojson throws on raises nothing and the later steps run.
C17_FirstProducingStepWins ==
  (Processed /\ result.column # NoColumn)
    => \A i \in 1..Len(pd.data) :
         Truthy(Get(pd.data[i], result.column))
           => /\ ~result.decoded[i].skipped
              /\ ~result.decoded[i].threw
              /\ result.decoded[i].geometry
                   = FirstProducing(Get(pd.data[i], result.column), pd.data[i])
              /\ \A k \in 1..Len(result.features) :
                   result.features[k].src = i
                     => result.features[k].geometry
                          = FirstProducing(Get(pd.data[i], result.column), pd.data[i])
              /\ Ran(result.decoded[i], "json")
                   => ~Truthy(WkbAlone(Get(pd.data[i], result.column)))
              /\ Ran(result.decoded[i], "object")
                   => /\ ~Truthy(WkbAlone(Get(pd.data[i], result.column)))
                      /\ ~Truthy(JsonAlone(Get(pd.data[i], result.column)))
              /\ Ran(result.decoded[i], "latlon")
                   => /\ ~Truthy(WkbAlone(Get(pd.data[i], result.column)))
                      /\ ~Truthy(JsonAlone(Get(pd.data[i], result.column)))
                      /\ ~Truthy(ObjectAlone(Get(pd.data[i], result.column)))
              /\ ( /\ Get(pd.data[i], result.column).t = "bin"
                   /\ ~WkbValid(Get(pd.data[i], result.column).bytes) )
                   => /\ Ran(result.decoded[i], "object")
                      /\ Ran(result.decoded[i], "latlon")

\* A published table with a row whose binary value wkbToGeojson throws on and
\* whose feature carries the latitude/longitude point.
C17_Witness ==
  /\ result.kind = "publish"
  /\ result.column # NoColumn
  /\ \E i \in 1..Len(pd.data) :
       /\ Get(pd.data[i], result.column).t = "bin"
       /\ ~WkbValid(Get(pd.data[i], result.column).bytes)
       /\ Truthy(LatLonAlone(pd.data[i]))
       /\ \E k \in 1..Len(result.features) :
            /\ result.features[k].src = i
            /\ result.features[k].geometry = LatLonAlone(pd.data[i])

\* ---- latitude/longitude synthesis, under SpecRows
\* The Point the row's latitude and longitude stand for.
PointOf(row) ==
  Obj(Str(PointText),
      Arr(<<parseFloat(Get(row, "longitude")), parseFloat(Get(row, "latitude"))>>))

\* C18: in the latitude/longitude branch a row yields a feature exactly when
\* both its latitude and its longitude are parseable as numbers, the numeric
\* value 0 included, and the feature's geometry is the Point
\* [longitude, latitude].
C18_PointIffBothParseable ==
  (Processed /\ result.column = NoColumn /\ UsesLatLon(pd))
    => \A i \in 1..Len(pd.data) :
         /\ ( /\ Parseable(Get(pd.data[i], "latitude"))
              /\ Parseable(Get(pd.data[i], "longitude")) )
              <=> \E k \in 1..Len(result.features) : result.features[k].src = i
         /\ \A k \in 1..Len(result.features) :
              result.features[k].src = i
                => result.features[k].geometry = PointOf(pd.data[i])

\* ---- the chunking of decompressData, under SpecChunks
RECURSIVE Concat(_, _)
Concat(list, n) == IF n = 0 THEN <<>> ELSE Concat(list, n - 1) \o list[n]

\* C19: for every input length, 0 and the multiples of CHUNK_SIZE included,
\* the chunk list handed to the codec is non-empty, its chunks in order make
\* up the input, and every chunk holds between 1 and CHUNK_SIZE bytes.
C19_ChunksCoverInput ==
  chunks.made
    => /\ Len(chunks.list) > 0
       /\ Concat(chunks.list, Len(chunks.list)) = input
       /\ \A k \in 1..Len(chunks.list) :
            /\ Len(chunks.list[k]) >= 1
            /\ Len(chunks.list[k]) <= CHUNK_SIZE

\* ---- what is rendered, under Spec
\* C20: on a mounted component, once the run of the current url has published
\* (setData and onLoad called), the map is rendered; an error recorded by an
\* earlier run or by a torn-down run is not what is shown.
C20_PublishedRunRendersMap ==
  \A r \in Runs :
    ( /\ r = cur
      /\ ~unmounted
      /\ pc[r] = "done"
      /\ calls[r].setData = 1
      /\ calls[r].onLoad = 1 )
      => /\ Render = "map"
         /\ data # Null

====
